---- MODULE Spec2Model ----
(***************************************************************************)
(* Model of src/rust/src/main.rs: the run of `main` against a Ledger Node  *)
(* (Bitcoin Core reached over JSON-RPC).  One action per remote call or    *)
(* local step of `main`, in source order.  The node is the environment:    *)
(* with faults = FALSE it answers as a regtest node that nobody else uses; *)
(* with faults = TRUE any call may fail, load_wallet and create_wallet may  *)
(* succeed or fail whatever the wallet's state, and the addresses, outputs, *)
(* details, fee and block count it returns are arbitrary, each answer      *)
(* drawn afresh: the two get_transaction calls need not agree.             *)
(* list_wallets, when it answers, names the loaded wallets.                *)
(* The file system is the other part of the environment: with              *)
(* file_faults = TRUE File::create and write_all may fail, a failed        *)
(* write_all leaving any proper prefix of the content, byte by byte.  The  *)
(* two are independent: a run may meet a faulty node, a faulty file        *)
(* system, both or neither.                                                *)
(*                                                                         *)
(* Text.  A string is the sequence of its characters, so that an address   *)
(* is its encoding and the file is the bytes written to it.                *)
(*                                                                         *)
(* Amounts.  The program holds amounts as f64 numbers of BTC obtained with *)
(* to_btc().  The model holds such a number v as the integer               *)
(* v * 10^FracDigits (its count of minor units), and renders it to text    *)
(* the way f64's Display does (FormatF64).                                 *)
(***************************************************************************)
EXTENDS Integers, Sequences, FiniteSets, TLC

\* ------------------------------------------------------------------ bounds
MaxOutputs == 2        \* longest output list the node returns
MaxStartHeight == 1    \* chain height before the run is 0..MaxStartHeight
FracDigits == 4        \* decimal places of an amount the model keeps

\* -------------------------------------------------------- program constants
blocks_to_generate == 101     \* main.rs:117
SendBtc == 20                 \* main.rs:160  Amount::from_btc(20.0)
OutputBtc == 20               \* main.rs:293  let output_amount = 20.0
ConfirmationBlocksTwo == 1 + 1
ConfirmationBlocks == 1       \* main.rs:186  generate_to_address(1, ..)

miner_wallet_name == "Miner"      \* main.rs:53
trader_wallet_name == "Trader"    \* main.rs:54

MinorPerBtc == 10 ^ FracDigits
send_amount == SendBtc * MinorPerBtc
output_amount == OutputBtc * MinorPerBtc

\* --------------------------------------------------------------------- text
\* The characters of the words the model's texts are made of.
Spell(word) ==
    CASE word = "bcrt" -> << "b", "c", "r", "t" >>
      [] word = "bc" -> << "b", "c" >>
      [] word = "miner" -> << "m", "i", "n", "e", "r" >>
      [] word = "trader" -> << "t", "r", "a", "d", "e", "r" >>
      [] word = "change" -> << "c", "h", "a", "n", "g", "e" >>
      [] word = "other" -> << "o", "t", "h", "e", "r" >>
      [] word = "foreign" -> << "f", "o", "r", "e", "i", "g", "n" >>
      [] word = "blockhash" ->
           << "b", "l", "o", "c", "k", "h", "a", "s", "h" >>

\* Display of an unsigned integer: its decimal digits.
RECURSIVE FormatU64(_)
FormatU64(n) ==
    IF n < 10 THEN << ToString(n) >>
    ELSE FormatU64(n \div 10) \o << ToString(n % 10) >>

\* ---------------------------------------------------------------- addresses
\* An address is its string; Network gives the network its encoding names.
\* An address encodes a script under a network's prefix: bcrt for regtest,
\* bc for mainnet.
Scripts == { "miner", "trader", "change", "other", "foreign" }
NonStandard == "nonstandard"      \* a script that has no address
Encode(script, hrp) == Spell(hrp) \o << "1", "q" >> \o Spell(script)
MinerAddr == Encode("miner", "bcrt")
TraderAddr == Encode("trader", "bcrt")
ChangeAddr == Encode("change", "bcrt")
OtherAddr == Encode("other", "bcrt")
ForeignAddr == Encode("foreign", "bc")
NoAddr == << >>                   \* script_pub_key.address = None

Network(addr) ==
    IF \E sc \in Scripts : addr = Encode(sc, "bc") THEN "bitcoin"
    ELSE "regtest"
\* The script an address pays to.
ScriptOf(addr) ==
    IF addr = NoAddr THEN NonStandard
    ELSE CHOOSE sc \in Scripts : addr \in { Encode(sc, "bcrt"), Encode(sc, "bc") }
\* Address::from_script(script, Network::Regtest): the script's address in
\* regtest encoding; an error for a script that has none.
FromScriptOk(script) == script # NonStandard
FromScript(script) == Encode(script, "bcrt")

\* Address::require_network(Network::Regtest): Ok iff the address is valid
\* for regtest.
RequireNetworkUnchecked(addr) == TRUE
RequireNetwork(addr) == Network(addr) = "regtest"

\* ------------------------------------------------------------------ amounts
Abs(n) == IF n < 0 THEN -n ELSE n

\* SignedAmount::to_btc().abs() at main.rs:290, 294, 305
ToBtcAbs(n) == Abs(n)

NoneFee == [some |-> FALSE, v |-> 0]
SomeFee(n) == [some |-> TRUE, v |-> n]
\* Option::unwrap_or(SignedAmount::ZERO)
UnwrapOrZero(opt) == IF opt.some THEN opt.v ELSE 0

\* fee = tx_details.fee.unwrap_or(SignedAmount::ZERO).to_btc().abs()
FeeOfSigned(opt) == UnwrapOrZero(opt)
FeeOf(opt) == ToBtcAbs(UnwrapOrZero(opt))

\* input_amount: the amount of the first detail of category Send, abs, or 0.
RECURSIVE FindSend(_, _)
FindSend(details, i) ==
    IF i > Len(details) THEN 0
    ELSE IF details[i].category = "send" THEN ToBtcAbs(details[i].amount)
    ELSE FindSend(details, i + 1)
InputAmountOf(details) == FindSend(details, 1)

\* f64 Display: the integer part, then "." and the fraction digits without
\* trailing zeros; nothing after the integer part when the fraction is zero.
RECURSIVE FracString(_, _)
FracString(frac, digits) ==
    IF frac = 0 THEN << >>
    ELSE << ToString(frac \div (10 ^ (digits - 1))) >>
         \o FracString(frac % (10 ^ (digits - 1)), digits - 1)
FormatF64(m) ==
    (IF m < 0 THEN << "-" >> ELSE << >>)
    \o FormatU64(Abs(m) \div MinorPerBtc)
    \o (IF Abs(m) % MinorPerBtc = 0 THEN << >>
        ELSE << "." >> \o FracString(Abs(m) % MinorPerBtc, FracDigits))

\* ------------------------------------------------------- the run's pipeline
\* The steps of main in source order; pc holds the step about to run.
Pipeline == << "get_blockchain_info", "ensure_Miner", "ensure_Trader",
               "miner_get_new_address", "generate_to_address", "get_balance",
               "trader_get_new_address", "send_to_address",
               "get_mempool_entry", "generate_confirmation",
               "get_raw_transaction", "decode_raw_transaction",
               "get_raw_transaction_2", "decode_raw_transaction_2",
               "scan", "diagnostic", "get_transaction",
               "get_raw_transaction_info", "get_block", "get_block_count",
               "extract", "get_transaction_2", "classify_outputs",
               "file_create", "write_all" >>

IndexOf(step) == CHOOSE i \in 1..Len(Pipeline) : Pipeline[i] = step
Prefix(seq, n) == SubSeq(seq, 1, n)
\* An ensure step is entered at its list_wallets call.
EntryPc(step) ==
    IF step \in {"ensure_Miner", "ensure_Trader"} THEN "list_wallets" ELSE step
\* The step after `step`; "done" after the last one.
NextPc(step) ==
    IF IndexOf(step) = Len(Pipeline) THEN "done"
    ELSE EntryPc(Pipeline[IndexOf(step) + 1])

\* What `?` (or a panicking unwrap) does with a failure at `step`: main
\* returns, whatever the step.
OnErrorSwallowMempool(step) ==
    IF step = "get_mempool_entry" THEN NextPc(step) ELSE "failed"
OnError(step) == "failed"

\* ----------------------------------------------------------- the Ledger Node
WalletNames == {miner_wallet_name, trader_wallet_name}
WalletStates == {"absent", "unloaded", "loaded"}

FundingInput == 50 * MinorPerBtc
ChangeValue == 30 * MinorPerBtc - 1
OtherValue == MinorPerBtc + 7
NodeFee == FundingInput - send_amount - ChangeValue

Output(addr, value) == [address |-> addr, value |-> value]
PaymentOutput == Output(TraderAddr, send_amount)
OutputChoices == { Output(NoAddr, 0), PaymentOutput, Output(ChangeAddr, 0),
                   Output(ChangeAddr, ChangeValue),
                   Output(OtherAddr, OtherValue),
                   Output(ForeignAddr, OtherValue) }

SeqsUpTo(S, n) == UNION { [1..k -> S] : k \in 0..n }

Detail(cat, amt) == [category |-> cat, amount |-> amt]
SendDetail == Detail("send", -send_amount)
DetailChoices == { <<>>, <<SendDetail>>,
                   <<Detail("receive", send_amount), SendDetail>>,
                   <<Detail("send", -FundingInput), SendDetail>> }
FeeChoices == { NoneFee, SomeFee(-NodeFee), SomeFee(0), SomeFee(NodeFee) }

VARIABLES
    pc,                      \* the step of main about to run, "done", "failed"
    failedAt,                \* the step whose failure ended the run, or ""
    faults,                  \* TRUE: the node may fail or answer anything
    file_faults,             \* TRUE: File::create and write_all may fail
    plan, idx,               \* the wallet names main ensures, and which is next
    wallets,                 \* node: the state of each wallet
    ensureLog,               \* remote calls of the current ensure, with results
    steps,                   \* the steps of main that succeeded, in order
    chain_height,            \* node: the height of the chain tip
    pre_transfer_height,     \* the chain height when the transfer was sent
    mining_reward_address, trader_receive_address,
    txid, block_hash,
    vout,                    \* decoded_tx.vout
    tx_output,               \* tx.output of the second get_transaction
    change_address, change_amount,
    diag,                    \* the no-change diagnostic was printed
    tx_details,              \* GetTransactionResult: details and fee
    input_amount, fee, block_height,
    trader_output, change_output,
    out_file                 \* the content of ../out.txt, its characters

vars == << pc, failedAt, faults, file_faults, plan, idx, wallets,
           ensureLog, steps,
           chain_height, pre_transfer_height, mining_reward_address,
           trader_receive_address, txid, block_hash, vout, tx_output,
           change_address,
           change_amount, diag, tx_details, input_amount, fee, block_height,
           trader_output, change_output, out_file >>

envVars == << faults, file_faults >>
nodeVars == << wallets, chain_height, pre_transfer_height >>
provVars == << plan, idx, ensureLog >>
addrVars == << mining_reward_address, trader_receive_address >>
txVars == << txid, block_hash, vout, tx_details, tx_output >>
recordVars == << change_address, change_amount, diag, input_amount, fee,
                 block_height, trader_output, change_output >>

NoOutput == [some |-> FALSE, address |-> << >>, value |-> 0]
OldContent == << "s", "t", "a", "l", "e" >>

InitLocals ==
    /\ failedAt = ""
    /\ idx = 1
    /\ ensureLog = <<>>
    /\ steps = <<>>
    /\ pre_transfer_height = 0
    /\ mining_reward_address = << >>
    /\ trader_receive_address = << >>
    /\ txid = << >>
    /\ block_hash = << >>
    /\ vout = <<>>
    /\ tx_output = <<>>
    /\ change_address = << >>
    /\ change_amount = 0
    /\ diag = FALSE
    /\ tx_details = [details |-> <<>>, fee |-> NoneFee]
    /\ input_amount = 0
    /\ fee = 0
    /\ block_height = 0
    /\ trader_output = NoOutput
    /\ change_output = NoOutput
    /\ out_file = OldContent

\* The state when main starts: any wallet state and chain height on the node.
Init ==
    /\ pc = "get_blockchain_info"
    /\ faults \in BOOLEAN
    /\ file_faults \in BOOLEAN
    /\ plan = << miner_wallet_name, trader_wallet_name >>
    /\ wallets \in [WalletNames -> WalletStates]
    /\ chain_height \in 0..MaxStartHeight
    /\ InitLocals

\* ------------------------------------------------------------ step helpers
Succeed(step) ==
    /\ pc' = NextPc(step)
    /\ steps' = Append(steps, step)
    /\ failedAt' = failedAt

Fail(step) ==
    /\ pc' = OnError(step)
    /\ failedAt' = IF OnError(step) = "failed" THEN step ELSE failedAt
    /\ steps' = steps

\* A remote call that only reads the node: it succeeds, or (faults) fails.
ReadCall(step) ==
    /\ pc = step
    /\ \/ Succeed(step)
       \/ faults /\ Fail(step)
    /\ UNCHANGED << envVars, nodeVars, provVars, addrVars, txVars, recordVars,
                    out_file >>

\* main.rs:39-46  Client::new and get_blockchain_info
GetBlockchainInfo ==
    /\ pc = "get_blockchain_info"
    /\ \/ Succeed("get_blockchain_info")
       \/ faults /\ Fail("get_blockchain_info")
    /\ UNCHANGED << envVars, nodeVars, provVars, addrVars, txVars, recordVars,
                    out_file >>

\* ------------------------------------------- wallet provisioning (57-88)
\* The node's own rules: load_wallet succeeds on a wallet that is on disk and
\* not loaded, create_wallet on a name that does not exist.
NodeLoadOk(state) == state = "unloaded"
NodeCreateOk(state) == state = "absent"
LoadResults(state) == IF faults THEN BOOLEAN ELSE { NodeLoadOk(state) }
CreateResults(state) == IF faults THEN BOOLEAN ELSE { NodeCreateOk(state) }
\* list_wallets: the names of the loaded wallets
ListResults == { { w \in WalletNames : wallets[w] = "loaded" } }

\* rpc.list_wallets()?.contains(&name)
ContainsNever(listed, name) == FALSE
Contains(listed, name) == name \in listed

\* Where the nested match goes after `call` returned Ok (ok) or Err.
EnsureNextRetryForever(call, ok) ==
    IF ok THEN "ensured"
    ELSE IF call = "load_wallet" THEN "create_wallet"
    ELSE IF call = "create_wallet" THEN "load_wallet_retry"
    ELSE "create_wallet"
EnsureNext(call, ok) ==
    IF ok THEN "ensured"
    ELSE IF call = "load_wallet" THEN "create_wallet"
    ELSE IF call = "create_wallet" THEN "load_wallet_retry"
    ELSE "failed"

\* The RPC method a step of the ensure block calls.
RpcName(call) == IF call = "load_wallet_retry" THEN "load_wallet" ELSE call
Entry(call, result) == [call |-> RpcName(call), result |-> result]
cur == plan[idx]
EnsureStep(name) == "ensure_" \o name

\* The ensure block of plan[idx] is over: on to the next block or step.
EnsureDone ==
    /\ steps' = Append(steps, EnsureStep(cur))
    /\ idx' = idx + 1
    /\ pc' = IF idx < Len(plan) THEN "list_wallets"
             ELSE NextPc(EnsureStep(trader_wallet_name))
    /\ failedAt' = failedAt

EnsureGoto(call, ok) ==
    IF EnsureNext(call, ok) = "ensured" THEN EnsureDone
    ELSE IF EnsureNext(call, ok) = "failed"
         THEN Fail(call) /\ idx' = idx
         ELSE /\ pc' = EnsureNext(call, ok)
              /\ UNCHANGED << steps, failedAt, idx >>

\* main.rs:57 / 74-76  if !rpc.list_wallets()?.contains(name)
EnsureList ==
    /\ pc = "list_wallets"
    /\ \/ /\ faults
          /\ ensureLog' = << Entry("list_wallets", "err") >>
          /\ Fail("list_wallets")
          /\ idx' = idx
       \/ \E listed \in ListResults :
            IF Contains(listed, cur)
            THEN /\ ensureLog' = << Entry("list_wallets", "listed") >>
                 /\ EnsureDone
            ELSE /\ ensureLog' = << Entry("list_wallets", "unlisted") >>
                 /\ pc' = "load_wallet"
                 /\ UNCHANGED << steps, failedAt, idx >>
    /\ UNCHANGED << envVars, plan, nodeVars, addrVars, txVars, recordVars,
                    out_file >>

\* A load_wallet or create_wallet call and the match on its result.
EnsureCall(call, results) ==
    /\ pc = call
    /\ \E ok \in results :
         /\ ensureLog' = Append(ensureLog,
                                Entry(call, IF ok THEN "ok" ELSE "err"))
         /\ wallets' = IF ok THEN [wallets EXCEPT ![cur] = "loaded"]
                       ELSE wallets
         /\ EnsureGoto(call, ok)
    /\ UNCHANGED << envVars, plan, chain_height, pre_transfer_height,
                    addrVars, txVars, recordVars, out_file >>

\* main.rs:58 / 78  match rpc.load_wallet(name)
EnsureLoad == EnsureCall("load_wallet", LoadResults(wallets[cur]))
\* main.rs:61 / 80  match rpc.create_wallet(name, ..)
EnsureCreate == EnsureCall("create_wallet", CreateResults(wallets[cur]))
\* main.rs:65 / 83  rpc.load_wallet(name)?
EnsureRetry == EnsureCall("load_wallet_retry", LoadResults(wallets[cur]))

\* ------------------------------------------------- funding (94-153)
\* get_new_address: the wallet's fresh address (any address from a faulty node)
NewAddresses(own) == IF faults THEN { own, ForeignAddr } ELSE { own }

\* main.rs:101-110  miner_client.get_new_address, require_network(Regtest)
MinerGetNewAddress ==
    /\ pc = "miner_get_new_address"
    /\ \/ faults /\ Fail("miner_get_new_address")
            /\ UNCHANGED mining_reward_address
       \/ \E addr \in NewAddresses(MinerAddr) :
            IF RequireNetwork(addr)
            THEN /\ mining_reward_address' = addr
                 /\ Succeed("miner_get_new_address")
            ELSE /\ Fail("miner_get_new_address")
                 /\ UNCHANGED mining_reward_address
    /\ ensureLog' = << >>       \* provisioning is over: no ensure is current
    /\ UNCHANGED << envVars, nodeVars, plan, idx, trader_receive_address,
                    txVars, recordVars, out_file >>

\* main.rs:117-119  miner_client.generate_to_address(101, ..)
GenerateToAddress ==
    /\ pc = "generate_to_address"
    /\ \/ faults /\ Fail("generate_to_address") /\ UNCHANGED chain_height
       \/ /\ chain_height' = chain_height + blocks_to_generate
          /\ Succeed("generate_to_address")
    /\ UNCHANGED << envVars, wallets, pre_transfer_height, provVars, addrVars,
                    txVars, recordVars, out_file >>

\* main.rs:129  miner_client.get_balance
GetBalance == ReadCall("get_balance")

\* main.rs:143-152  trader_client.get_new_address, require_network(Regtest)
TraderGetNewAddress ==
    /\ pc = "trader_get_new_address"
    /\ \/ faults /\ Fail("trader_get_new_address")
            /\ UNCHANGED trader_receive_address
       \/ \E addr \in NewAddresses(TraderAddr) :
            IF RequireNetwork(addr)
            THEN /\ trader_receive_address' = addr
                 /\ Succeed("trader_get_new_address")
            ELSE /\ Fail("trader_get_new_address")
                 /\ UNCHANGED trader_receive_address
    /\ UNCHANGED << envVars, nodeVars, provVars, mining_reward_address,
                    txVars, recordVars, out_file >>

\* ------------------------------------------- transfer and confirmation
\* main.rs:160-170  miner_client.send_to_address(trader, 20 BTC)
SendToAddress ==
    /\ pc = "send_to_address"
    /\ \/ faults /\ Fail("send_to_address")
            /\ UNCHANGED << txid, pre_transfer_height >>
       \/ /\ txid' = << "t", "x", "1" >>
          /\ pre_transfer_height' = chain_height
          /\ Succeed("send_to_address")
    /\ UNCHANGED << envVars, wallets, chain_height, provVars, addrVars,
                    block_hash, vout, tx_details, tx_output, recordVars,
                    out_file >>

\* main.rs:178  rpc.get_mempool_entry(&txid)
GetMempoolEntry == ReadCall("get_mempool_entry")

\* The hash of the block at height h.
BlockHashAt(h) == Spell("blockhash") \o FormatU64(h)

\* main.rs:186-187  rpc.generate_to_address(1, ..); confirmation_block[0]
GenerateConfirmation ==
    /\ pc = "generate_confirmation"
    /\ \/ faults /\ Fail("generate_confirmation")
            /\ UNCHANGED << chain_height, block_hash >>
       \/ /\ chain_height' = chain_height + ConfirmationBlocks
          /\ block_hash' = BlockHashAt(chain_height + 1)
          /\ Succeed("generate_confirmation")
    /\ UNCHANGED << envVars, wallets, pre_transfer_height, provVars, addrVars,
                    txid, vout, tx_details, tx_output, recordVars,
                    out_file >>

\* main.rs:195  miner_client.get_raw_transaction
GetRawTransaction == ReadCall("get_raw_transaction")
\* main.rs:198-213  miner_client.decode_raw_transaction (outputs printed)
DecodeRawTransaction == ReadCall("decode_raw_transaction")
\* main.rs:216  miner_client.get_raw_transaction
GetRawTransaction2 == ReadCall("get_raw_transaction_2")

\* The outputs of the transfer as a regtest wallet builds them: the payment
\* and, unless the inputs are spent exactly, one change output, either order.
WalletBuiltOutputs ==
    { << PaymentOutput >>,
      << PaymentOutput, Output(ChangeAddr, ChangeValue) >>,
      << Output(ChangeAddr, ChangeValue), PaymentOutput >> }
DecodedOutputs ==
    IF faults THEN SeqsUpTo(OutputChoices, MaxOutputs) ELSE WalletBuiltOutputs

\* main.rs:217  decoded_tx = miner_client.decode_raw_transaction(..)
DecodeRawTransaction2 ==
    /\ pc = "decode_raw_transaction_2"
    /\ \/ faults /\ Fail("decode_raw_transaction_2") /\ UNCHANGED vout
       \/ \E outs \in DecodedOutputs :
            /\ vout' = outs
            /\ Succeed("decode_raw_transaction_2")
    /\ UNCHANGED << envVars, nodeVars, provVars, addrVars, txid, block_hash,
                    tx_details, tx_output, recordVars, out_file >>

\* ------------------------------------------------ change scan (222-252)
ScanResult(err, addr, amount, at) ==
    [err |-> err, change_address |-> addr, change_amount |-> amount, at |-> at]

\* The loop over decoded_tx.vout from output i on: an output without an
\* address is passed over, an address that is not a regtest address ends the
\* run, the first address that is not the trader's is the change (break).
RECURSIVE ScanLast(_, _, _, _, _)
ScanLast(outs, i, trader, addr, amount) ==
    IF i > Len(outs) THEN ScanResult(FALSE, addr, amount, 0)
    ELSE IF outs[i].address = NoAddr
         THEN ScanLast(outs, i + 1, trader, addr, amount)
    ELSE IF ~RequireNetwork(outs[i].address)
         THEN ScanResult(TRUE, addr, amount, i)
    ELSE IF outs[i].address # trader
         THEN ScanLast(outs, i + 1, trader, outs[i].address, outs[i].value)
    ELSE ScanLast(outs, i + 1, trader, addr, amount)
RECURSIVE ScanFrom(_, _, _, _, _)
ScanFrom(outs, i, trader, addr, amount) ==
    IF i > Len(outs) THEN ScanResult(FALSE, addr, amount, 0)
    ELSE IF outs[i].address = NoAddr
         THEN ScanFrom(outs, i + 1, trader, addr, amount)
    ELSE IF ~RequireNetwork(outs[i].address)
         THEN ScanResult(TRUE, addr, amount, i)
    ELSE IF outs[i].address # trader
         THEN ScanResult(FALSE, outs[i].address, outs[i].value, i)
    ELSE ScanFrom(outs, i + 1, trader, addr, amount)

\* main.rs:222-223  the change when the loop finds none
FallbackTrader(miner, trader) == trader
Fallback(miner, trader) == miner

\* main.rs:222-252
ScanVout(outs, trader, miner) ==
    ScanFrom(outs, 1, trader, Fallback(miner, trader), 0)

Scan ==
    /\ pc = "scan"
    /\ LET r == ScanVout(vout, trader_receive_address, mining_reward_address)
       IN IF r.err
          THEN /\ Fail("scan")
               /\ UNCHANGED << change_address, change_amount >>
          ELSE /\ change_address' = r.change_address
               /\ change_amount' = r.change_amount
               /\ Succeed("scan")
    /\ UNCHANGED << envVars, nodeVars, provVars, addrVars, txVars, diag,
                    input_amount, fee, block_height, trader_output,
                    change_output, out_file >>

\* main.rs:255-277  if change_amount == 0.0: print the warning and every
\* output, resolving each address against regtest
DiagnosticRuns(amount) == amount = 0
AllResolve(outs) ==
    \A i \in 1..Len(outs) :
        outs[i].address # NoAddr => RequireNetwork(outs[i].address)

Diagnostic ==
    /\ pc = "diagnostic"
    /\ IF DiagnosticRuns(change_amount)
       THEN /\ diag' = TRUE
            /\ IF AllResolve(vout) THEN Succeed("diagnostic")
               ELSE Fail("diagnostic")
       ELSE /\ diag' = diag
            /\ Succeed("diagnostic")
    /\ UNCHANGED << envVars, nodeVars, provVars, addrVars, txVars,
                    change_address, change_amount, input_amount, fee,
                    block_height, trader_output, change_output, out_file >>

\* ------------------------------------------- detail lookups (280-305)
\* get_transaction as the sending wallet reports the transfer: one send
\* detail of minus the amount sent, and the fee as a negative amount.
WalletDetails == { [details |-> << SendDetail >>, fee |-> SomeFee(-NodeFee)] }
TransactionDetails ==
    IF faults THEN [details : DetailChoices, fee : FeeChoices]
    ELSE WalletDetails

\* main.rs:280  tx_details = miner_client.get_transaction(&txid, Some(true))
GetTransaction ==
    /\ pc = "get_transaction"
    /\ \/ faults /\ Fail("get_transaction") /\ UNCHANGED tx_details
       \/ \E d \in TransactionDetails :
            /\ tx_details' = d
            /\ Succeed("get_transaction")
    /\ UNCHANGED << envVars, nodeVars, provVars, addrVars, txid, block_hash,
                    vout, tx_output, recordVars, out_file >>

\* main.rs:281  rpc.get_raw_transaction_info
GetRawTransactionInfo == ReadCall("get_raw_transaction_info")
\* main.rs:282  rpc.get_block(&block_hash)
GetBlock == ReadCall("get_block")

\* get_block_count: the tip's height; a node that others use may have grown.
BlockCounts == IF faults THEN { chain_height, chain_height + 1 }
               ELSE { chain_height }

\* main.rs:283  block_height = rpc.get_block_count()
GetBlockCount ==
    /\ pc = "get_block_count"
    /\ \/ faults /\ Fail("get_block_count") /\ UNCHANGED block_height
       \/ \E h \in BlockCounts :
            /\ block_height' = h
            /\ Succeed("get_block_count")
    /\ UNCHANGED << envVars, nodeVars, provVars, addrVars, txVars,
                    change_address, change_amount, diag, input_amount, fee,
                    trader_output, change_output, out_file >>

\* main.rs:286-294  input_amount, output_amount, fee
Extract ==
    /\ pc = "extract"
    /\ input_amount' = InputAmountOf(tx_details.details)
    /\ fee' = FeeOf(tx_details.fee)
    /\ Succeed("extract")
    /\ UNCHANGED << envVars, nodeVars, provVars, addrVars, txVars,
                    change_address, change_amount, diag, block_height,
                    trader_output, change_output, out_file >>

\* tx.output: the outputs of the transaction the second get_transaction
\* returns in hex, each a script and a value.
TxOut(script, value) == [script_pubkey |-> script, value |-> value]
RawOutputs(outs) ==
    [ i \in 1..Len(outs) |-> TxOut(ScriptOf(outs[i].address), outs[i].value) ]
\* What a faulty node may return instead of the outputs it decoded before.
OtherRawOutputs ==
    { <<>>,
      << TxOut(NonStandard, 0) >>,
      << TxOut("trader", send_amount), TxOut("other", OtherValue) >> }
TransactionOutputs ==
    IF faults THEN { RawOutputs(vout) } \cup OtherRawOutputs
    ELSE { RawOutputs(vout) }

\* main.rs:300-305  let tx_details = get_transaction(..) again: tx_details is
\* bound anew to this answer, tx is its transaction and fee is computed from
\* its fee; input_amount stays what line 286 made of the first answer.
GetTransaction2 ==
    /\ pc = "get_transaction_2"
    /\ \/ /\ faults
          /\ Fail("get_transaction_2")
          /\ UNCHANGED << fee, tx_details, tx_output >>
       \/ \E d \in TransactionDetails, outs \in TransactionOutputs :
            /\ tx_details' = d
            /\ tx_output' = outs
            /\ fee' = FeeOf(d.fee)
            /\ Succeed("get_transaction_2")
    /\ UNCHANGED << envVars, nodeVars, provVars, addrVars, txid, block_hash,
                    vout, change_address, change_amount, diag,
                    input_amount, block_height, trader_output, change_output,
                    out_file >>

\* --------------------------------------- second output loop (307-318)
\* Some((out_address, out.value))
SomeOutput(out) ==
    [some |-> TRUE, address |-> FromScript(out.script_pubkey),
     value |-> out.value]

\* The last output up to i whose address from_script gives is (match) or is
\* not the trader's.
RECURSIVE LastOutput(_, _, _, _)
LastOutput(outs, i, trader, match) ==
    IF i = 0 THEN NoOutput
    ELSE IF (FromScript(outs[i].script_pubkey) = trader) = match
         THEN SomeOutput(outs[i])
    ELSE LastOutput(outs, i - 1, trader, match)

\* main.rs:307-318  for out in &tx.output: from_script(..).unwrap() panics on
\* a script without an address.
ClassifyOutputs ==
    /\ pc = "classify_outputs"
    /\ IF \A i \in 1..Len(tx_output) : FromScriptOk(tx_output[i].script_pubkey)
       THEN /\ trader_output' =
                 LastOutput(tx_output, Len(tx_output),
                            trader_receive_address, TRUE)
            /\ change_output' =
                 LastOutput(tx_output, Len(tx_output),
                            trader_receive_address, FALSE)
            /\ Succeed("classify_outputs")
       ELSE /\ Fail("classify_outputs")
            /\ UNCHANGED << trader_output, change_output >>
    /\ UNCHANGED << envVars, nodeVars, provVars, addrVars, txVars,
                    change_address, change_amount, diag, input_amount, fee,
                    block_height, out_file >>

\* ------------------------------------------------- the report (328-336)
NL == "\n"
\* main.rs:328-331  format!("{txid}\n{mining_reward_address}\n...")
OutputContentSwapped(r) ==
    r.txid \o << NL >> \o r.mining_reward_address \o << NL >>
    \o FormatF64(r.input_amount) \o << NL >>
    \o r.trader_receive_address \o << NL >>
    \o FormatF64(r.output_amount) \o << NL >>
    \o r.change_address \o << NL >>
    \o FormatF64(r.fee) \o << NL >>
    \o FormatF64(r.change_amount) \o << NL >>
    \o FormatU64(r.block_height) \o << NL >>
    \o r.block_hash
OutputContent(r) ==
    r.txid \o << NL >> \o r.mining_reward_address \o << NL >>
    \o FormatF64(r.input_amount) \o << NL >>
    \o r.trader_receive_address \o << NL >>
    \o FormatF64(r.output_amount) \o << NL >>
    \o r.change_address \o << NL >>
    \o FormatF64(r.change_amount) \o << NL >>
    \o FormatF64(r.fee) \o << NL >>
    \o FormatU64(r.block_height) \o << NL >>
    \o r.block_hash

\* The values the format string names, as main holds them at line 328.
output_content ==
    OutputContent([ txid |-> txid,
                    mining_reward_address |-> mining_reward_address,
                    input_amount |-> input_amount,
                    trader_receive_address |-> trader_receive_address,
                    output_amount |-> output_amount,
                    change_address |-> change_address,
                    change_amount |-> change_amount,
                    fee |-> fee,
                    block_height |-> block_height,
                    block_hash |-> block_hash ])

\* main.rs:334  File::create("../out.txt")?  truncates the file
FileCreate ==
    /\ pc = "file_create"
    /\ \/ file_faults /\ Fail("file_create") /\ UNCHANGED out_file
       \/ /\ out_file' = <<>>
          /\ Succeed("file_create")
    /\ UNCHANGED << envVars, nodeVars, provVars, addrVars, txVars,
                    recordVars >>

\* A write_all that fails has written the first n bytes of the content, for
\* any n short of all of it, none included.
PartialWrites(content) == 0..(Len(content) - 1)

\* main.rs:335  file.write_all(output_content.as_bytes())?
WriteAll ==
    /\ pc = "write_all"
    /\ \/ /\ file_faults
          /\ \E n \in PartialWrites(output_content) :
               out_file' = Prefix(output_content, n)
          /\ Fail("write_all")
       \/ /\ out_file' = output_content
          /\ Succeed("write_all")
    /\ UNCHANGED << envVars, nodeVars, provVars, addrVars, txVars,
                    recordVars >>

\* ---------------------------------------------------------- specifications
Next ==
    \/ GetBlockchainInfo
    \/ EnsureList
    \/ EnsureLoad
    \/ EnsureCreate
    \/ EnsureRetry
    \/ MinerGetNewAddress
    \/ GenerateToAddress
    \/ GetBalance
    \/ TraderGetNewAddress
    \/ SendToAddress
    \/ GetMempoolEntry
    \/ GenerateConfirmation
    \/ GetRawTransaction
    \/ DecodeRawTransaction
    \/ GetRawTransaction2
    \/ DecodeRawTransaction2
    \/ Scan
    \/ Diagnostic
    \/ GetTransaction
    \/ GetRawTransactionInfo
    \/ GetBlock
    \/ GetBlockCount
    \/ Extract
    \/ GetTransaction2
    \/ ClassifyOutputs
    \/ FileCreate
    \/ WriteAll

\* One run of main.
Spec == Init /\ [][Next]_vars

\* The ensure block run twice in a row for one wallet name: the two blocks of
\* main (57-71, 74-88) are the same code for two names.
InitEnsure ==
    /\ pc = "list_wallets"
    /\ faults \in BOOLEAN
    /\ file_faults = FALSE
    /\ \E name \in WalletNames : plan = << name, name >>
    /\ wallets \in [WalletNames -> WalletStates]
    /\ chain_height \in 0..MaxStartHeight
    /\ InitLocals

NextEnsure ==
    \/ EnsureList
    \/ EnsureLoad
    \/ EnsureCreate
    \/ EnsureRetry

SpecEnsure == InitEnsure /\ [][NextEnsure]_vars

\* ------------------------------------------------------------------ claims
Did(step) == \E i \in 1..Len(steps) : steps[i] = step
\* The file cut at its line breaks: the sequence of its fields.  `line` is
\* the field being read from character i on, `done` the fields before it.
RECURSIVE SplitLines(_, _, _, _)
SplitLines(text, i, line, done) ==
    IF i > Len(text) THEN Append(done, line)
    ELSE IF text[i] = NL
         THEN SplitLines(text, i + 1, << >>, Append(done, line))
    ELSE SplitLines(text, i + 1, Append(line, text[i]), done)
Fields == SplitLines(out_file, 1, << >>, << >>)

\* The first output that has an address other than the trader's; 0 if none.
IsNonMatch(out, trader) == out.address # NoAddr /\ out.address # trader
FirstNonMatch(outs, trader) ==
    IF \E i \in 1..Len(outs) : IsNonMatch(outs[i], trader)
    THEN CHOOSE i \in 1..Len(outs) :
            /\ IsNonMatch(outs[i], trader)
            /\ \A j \in 1..(i - 1) : ~IsNonMatch(outs[j], trader)
    ELSE 0
OnForeignNetwork(out) == out.address = ForeignAddr
TwoOutputsOneEach ==
    /\ Len(vout) = 2
    /\ \E i, j \in 1..2 :
         /\ i # j
         /\ vout[i].address = trader_receive_address
         /\ IsNonMatch(vout[j], trader_receive_address)

\* C1 (as stated): for a transaction of exactly two outputs, one to the
\* trader and one not, the finished run has classified one output as payment
\* and one as change, and payment + change + fee = input amount.
C1_BalancedRecord ==
    (pc = "done" /\ TwoOutputsOneEach) =>
        /\ trader_output.some /\ change_output.some
        /\ change_address = change_output.address
        /\ output_amount + change_amount + fee = input_amount

\* C2: with a node that follows its rules, the second of two ensure calls for
\* one wallet name never fails, and after it the wallet is loaded, whatever
\* state the wallet started in.
C2_EnsureTwice ==
    ~faults =>
        /\ idx >= 2 => pc # "failed"
        /\ idx = 3 => wallets[plan[1]] = "loaded"
C2_Witness ==
    /\ ~faults
    /\ idx = 3
    /\ steps = << EnsureStep(plan[1]), EnsureStep(plan[1]) >>
    /\ ensureLog = << Entry("list_wallets", "listed") >>

\* C3: against any node, the calls of one ensure are a prefix of list, load,
\* create, load; a call follows another only when the wallet was not listed
\* and the attempt before it failed; and a failed second load ends the run.
EnsureOrder ==
    << "list_wallets", "load_wallet", "create_wallet", "load_wallet" >>
C3_BoundedProvisioning ==
    /\ Len(ensureLog) <= Len(EnsureOrder)
    /\ \A i \in 1..Len(ensureLog) : ensureLog[i].call = EnsureOrder[i]
    /\ \A i \in 1..(Len(ensureLog) - 1) :
         ensureLog[i].result = IF i = 1 THEN "unlisted" ELSE "err"
    /\ (Len(ensureLog) = 4 /\ ensureLog[4].result = "err") =>
         (pc = "failed" /\ failedAt = "load_wallet_retry")
    /\ Cardinality({ i \in 1..Len(ensureLog) :
                       ensureLog[i].call = "create_wallet" }) <= 1
C3_Witness ==
    /\ Len(ensureLog) = 4
    /\ ensureLog[4] = Entry("load_wallet", "err")
    /\ pc = "failed"
    /\ idx = 2

\* C4 (as stated): an output whose address is not a regtest address does not
\* stop the classification, and the change found is the one found with such
\* outputs left out.
SkipForeign(outs) == SelectSeq(outs, LAMBDA o : ~OnForeignNetwork(o))
C4_LocalFailure ==
    (Did("decode_raw_transaction_2")
        /\ \E i \in 1..Len(vout) : OnForeignNetwork(vout[i])) =>
        /\ failedAt \notin {"scan", "diagnostic"}
        /\ Did("scan") =>
             LET k == FirstNonMatch(SkipForeign(vout), trader_receive_address)
             IN  IF k = 0
                 THEN change_address = mining_reward_address
                      /\ change_amount = 0
                 ELSE change_address = SkipForeign(vout)[k].address
                      /\ change_amount = SkipForeign(vout)[k].value

\* C4 (amended): a network mismatch is fatal.  The scan ends the run exactly
\* when the first output that is not the trader's has an address of another
\* network; the diagnostic pass, which runs when the change amount is 0, ends
\* the run exactly when any output has one; either way the file is left as it
\* was.  An output of another network that neither pass resolves has no effect.
C4_FatalWhenResolved ==
    LET k == FirstNonMatch(vout, trader_receive_address)
        foreign == \E i \in 1..Len(vout) : OnForeignNetwork(vout[i])
    IN  /\ (Did("decode_raw_transaction_2") /\ pc # "scan") =>
             (failedAt = "scan" <=> (k # 0 /\ OnForeignNetwork(vout[k])))
        /\ (Did("scan") /\ pc # "diagnostic") =>
             (failedAt = "diagnostic" <=> (change_amount = 0 /\ foreign))
        /\ failedAt \in {"scan", "diagnostic"} =>
             (pc = "failed" /\ out_file = OldContent)
        /\ (Did("diagnostic") /\ foreign) =>
             (change_address = vout[k].address
                /\ change_amount = vout[k].value)
C4_Witness ==
    /\ pc = "done"
    /\ \E i \in 1..Len(vout) : OnForeignNetwork(vout[i])

\* C5: once the scan is over, the change it recorded is the address and the
\* amount of the first output, in output order, that has an address other
\* than the trader's, whatever follows it; the change address is never the
\* trader's; and the report carries that change.
C5_FirstNonMatch ==
    LET k == FirstNonMatch(vout, trader_receive_address)
    IN  Did("scan") =>
          /\ k # 0 => (change_address = vout[k].address
                         /\ change_amount = vout[k].value)
          /\ change_address # trader_receive_address
          /\ (pc = "done" /\ k # 0) =>
               LET f == Fields
               IN  /\ f[6] = vout[k].address
                   /\ f[7] = FormatF64(vout[k].value)
C5_Witness ==
    /\ pc = "done"
    /\ Len(vout) >= 2
    /\ vout[1] = Output(ChangeAddr, ChangeValue)
    /\ vout[2] = Output(OtherAddr, OtherValue)
    /\ Fields[6] = ChangeAddr

\* C6: when no output has an address other than the trader's, neither the
\* scan nor the diagnostic ends the run, the change is the mining-reward
\* address with amount 0, the diagnostic is printed, and the report says so;
\* when every output of both views of the transaction pays the trader the
\* second loop does not end the run either.
NoNonMatch == FirstNonMatch(vout, trader_receive_address) = 0
AllToTrader ==
    /\ \A i \in 1..Len(vout) : vout[i].address = trader_receive_address
    /\ \A i \in 1..Len(tx_output) :
         tx_output[i].script_pubkey = ScriptOf(trader_receive_address)
C6_ZeroChange ==
    (Did("decode_raw_transaction_2") /\ NoNonMatch) =>
        /\ failedAt \notin {"scan", "diagnostic"}
        /\ AllToTrader => failedAt # "classify_outputs"
        /\ Did("scan") => (change_address = mining_reward_address
                             /\ change_amount = 0)
        /\ Did("diagnostic") => diag
        /\ pc = "done" =>
             LET f == Fields
             IN  /\ f[6] = mining_reward_address
                 /\ f[7] = << "0" >>
C6_Witness ==
    /\ pc = "done"
    /\ vout = << PaymentOutput >>
    /\ diag
    /\ Fields[6] = MinerAddr

\* C7: the report a finished run leaves is ten fields separated by nine line
\* breaks, in the order txid, mining-reward address, input amount, trader
\* address, payment amount, change address, change amount, fee, block
\* height, block hash, with nothing after the hash and nothing of the file's
\* earlier content; File::create leaves the file empty.
C7_ReportFormat ==
    /\ pc = "write_all" => out_file = <<>>
    /\ pc = "done" =>
         Fields = << txid, mining_reward_address, FormatF64(input_amount),
                     trader_receive_address, FormatF64(output_amount),
                     change_address, FormatF64(change_amount),
                     FormatF64(fee), FormatU64(block_height), block_hash >>
C7_Witness ==
    /\ pc = "done"
    /\ chain_height = blocks_to_generate + ConfirmationBlocks
    /\ vout = << PaymentOutput, Output(ChangeAddr, ChangeValue) >>
    /\ Prefix(out_file, 21) = << "t", "x", "1", NL,
                                 "b", "c", "r", "t", "1", "q",
                                 "m", "i", "n", "e", "r", NL,
                                 "2", "0", NL, "b", "c" >>
    /\ LET f == Fields
       IN  /\ f[4] = << "b", "c", "r", "t", "1", "q",
                        "t", "r", "a", "d", "e", "r" >>
           /\ f[5] = << "2", "0" >>
           /\ f[6] = << "b", "c", "r", "t", "1", "q",
                        "c", "h", "a", "n", "g", "e" >>
           /\ f[7] = FormatF64(ChangeValue)
           /\ f[8] = FormatF64(NodeFee)
           /\ f[9] = << "1", "0", "2" >>
           /\ f[10] = << "b", "l", "o", "c", "k", "h", "a", "s", "h",
                         "1", "0", "2" >>

\* C8: with a node that follows its rules, a finished run reports a payment
\* of 20, the trader's generated address as counterparty, and a block height
\* one above the height at which the transfer was sent, which is the height
\* of the block whose hash it reports; 101 blocks were mined before.
C8_EndToEnd ==
    (~faults /\ pc = "done") =>
        LET f == Fields
        IN  /\ f[5] = FormatU64(SendBtc)
            /\ f[4] = TraderAddr
            /\ pre_transfer_height >= blocks_to_generate
            /\ block_height = pre_transfer_height + 1
            /\ block_hash = BlockHashAt(block_height)
            /\ f[9] = FormatU64(pre_transfer_height + 1)
            /\ f[10] = BlockHashAt(pre_transfer_height + 1)
C8_Witness ==
    /\ ~faults
    /\ pc = "done"
    /\ pre_transfer_height = blocks_to_generate + 1
    /\ Fields[9] = << "1", "0", "3" >>

\* C9: a step is never taken after a failure; the steps that succeeded are
\* always an initial part of the pipeline, in order, so none is skipped; a
\* failure leaves the run failed; and the file is touched only once every
\* step before file_create has succeeded.
C9_FailFast ==
    [][ /\ pc = "failed" => UNCHANGED vars
        /\ steps' = Prefix(Pipeline, Len(steps'))
        /\ failedAt' # failedAt => pc' = "failed"
        /\ pc' = "done" => steps' = Pipeline
        /\ out_file' # out_file =>
             /\ pc \in {"file_create", "write_all"}
             /\ Prefix(steps, IndexOf("file_create") - 1)
                  = Prefix(Pipeline, IndexOf("file_create") - 1)
      ]_vars
\* The last step fails part-way through the report, on a run whose node
\* answered the second get_transaction without a fee (taken as 0, not as a
\* failure) and with a fee the first time.
C9_Witness ==
    /\ pc = "failed"
    /\ failedAt = "write_all"
    /\ faults /\ file_faults
    /\ steps = Prefix(Pipeline, Len(Pipeline) - 1)
    /\ ~tx_details.fee.some /\ fee = 0
    /\ out_file = << "t", "x", "1", NL, "b", "c", "r", "t", "1", "q" >>

\* C10: from the moment the fee is computed it is the absolute value of the
\* fee the node reported in the answer tx_details is bound to (the first
\* get_transaction, then the second), so it is never negative, and it is 0
\* when that answer reported none; computing it never ends the run; the
\* report carries it.
ReportedFee == tx_details.fee
C10_FeeNonNegative ==
    /\ failedAt # "extract"
    /\ Did("extract") =>
         /\ fee >= 0
         /\ ~ReportedFee.some => fee = 0
         /\ (ReportedFee.some /\ ReportedFee.v < 0) => fee = 0 - ReportedFee.v
         /\ (ReportedFee.some /\ ReportedFee.v >= 0) => fee = ReportedFee.v
         /\ pc = "done" => Fields[8] = FormatF64(fee)
C10_Witness ==
    /\ pc = "done"
    /\ ReportedFee = SomeFee(0 - NodeFee)
    /\ fee = NodeFee
    /\ Fields[8] = FormatF64(NodeFee)

====
